---- MODULE Spec2Model ----
(***************************************************************************)
(* Hemmelig: secret lifecycle.  Secret creation endpoints                  *)
(* (server/controllers/encrypt + password), the periodic dbCleaner sweep   *)
(* and the bootstrap of server/bootstrap.js, and the view path             *)
(* (AccessGate + ViewConsumer) of spec.md sections 4.1 and 4.2.            *)
(*                                                                         *)
(* Time is in milliseconds, as Date.now().  Optional request fields are    *)
(* sequences: <<>> when the field is absent, <<v>> when it is present.     *)
(* Query-string values are sequences of one-character strings.             *)
(***************************************************************************)
EXTENDS Integers, Sequences, FiniteSets, TLC

\* ------------------------------------------------------------------ bounds
MaxSecrets == 2
MaxCreates == 1
MaxFieldsSet == 2
MaxCalls == 3
MaxSweeps == 2

\* ------------------------------------------------------- program constants
\* config secret.maxViewsLimit (SECRET_MAX_VIEWS_LIMIT, default "100")
maxViewsLimit == 100
\* hard-coded upper bound of the first definition of the password controller
LegacyMaxViews == 999
\* const DEFAULT_EXPIRATION = 60 * 60 * 24 * 1000
DEFAULT_EXPIRATION == 60 * 60 * 24 * 1000
\* setInterval(..., 20 * 1000)
SweepInterval == 20 * 1000
\* helpers/validate-ttl.js: the enumerated lifetimes, in seconds
VALID_TTL == {300, 3600, 86400, 604800, 1209600, 2419200}

\* ------------------------------------------------------------ environment
Procs == {"A", "B"}
\* the instants the clock visits
Instants == {0, SweepInterval, 300000, 300000 + SweepInterval}

None == <<>>
Some(v) == <<v>>
\* destructuring default: const { f = d } = request.body
OrDefault(o, d) == IF o = None THEN d ELSE o[1]

VARIABLES
    now,                 \* the wall clock, Date.now()
    storeUp,             \* whether the store answers; a call to a down store throws
    enableBurnAfterTime, \* config secret.enableBurnAfterTime
    secrets,             \* table "Secret": id -> row or NoRow
    remainingViews,      \* the view budget left of each secret
    nextId,              \* the next fresh secret id
    created,             \* history: the row each id was inserted with
    statistic,           \* table "Statistic", row 'secrets_created': <<>> or <<value>>
    inflight,            \* creation requests between the insert and the statistic upsert,
                         \* each with what its request said of showPassword
    reply,               \* the last reply a creation endpoint sent; a 200 reply says
                         \* whether it has the password, and what was asked
    calls,               \* view calls: position, target, outcome
    boot,                \* each process's position in main()
    timer,               \* whether the process has its setInterval registered
    alive,               \* whether the process is still running
    sweeps,              \* dbCleaner runs whose deleteMany is in flight
    sweepLog,            \* what the last finished dbCleaner run did
    settings,            \* table "Settings", row 'admin_settings', or NoRow
    adminSettings,       \* per process: the in-memory settings map
    rootUser,            \* table "User": the number of users with the root username and email
    pending              \* per process: the settings update written, not yet cached

envVars == <<now, storeUp, enableBurnAfterTime>>
secretVars == <<secrets, remainingViews, nextId, created>>
createVars == <<statistic, inflight, reply>>
procVars == <<boot, timer, alive, adminSettings>>
sweepVars == <<sweeps, sweepLog>>
policyVars == <<settings, rootUser, pending>>

vars == <<envVars, secretVars, createVars, calls, procVars, sweepVars,
          policyVars>>

NoRow == [absent |-> TRUE]
Ids == 1..MaxSecrets
HasRow(id) == secrets[id] # NoRow

\* ------------------------------------------------------------ conversions
Digits == {"0", "1", "2", "3", "4", "5", "6", "7", "8", "9"}
DigitVal(c) ==
    CASE c = "0" -> 0 [] c = "1" -> 1 [] c = "2" -> 2 [] c = "3" -> 3
      [] c = "4" -> 4 [] c = "5" -> 5 [] c = "6" -> 6 [] c = "7" -> 7
      [] c = "8" -> 8 [] c = "9" -> 9

\* the number of leading decimal digits of s
RECURSIVE DigitPrefix(_)
DigitPrefix(s) ==
    IF s = <<>> \/ Head(s) \notin Digits THEN 0 ELSE 1 + DigitPrefix(Tail(s))

RECURSIVE DigitsValue(_, _)
DigitsValue(s, n) ==
    IF n = 0 THEN 0 ELSE 10 * DigitsValue(s, n - 1) + DigitVal(s[n])

\* parseInt(s, 10) of a string: the value of the leading digits, None for NaN
ParseInt(s) ==
    IF DigitPrefix(s) = 0 THEN None ELSE Some(DigitsValue(s, DigitPrefix(s)))

\* parseInt(n) of a value that is already an integer
ParseIntNum(n) == Some(n)

IsNaN(r) == r = None

\* schema pattern '^\d+$'
MatchesDigits(s) == s # <<>> /\ DigitPrefix(s) = Len(s)

\* String.prototype.trim on a string of blanks and letters
RECURSIVE TrimLeft(_)
TrimLeft(s) == IF s # <<>> /\ Head(s) = " " THEN TrimLeft(Tail(s)) ELSE s
RECURSIVE TrimRight(_)
TrimRight(s) ==
    IF s # <<>> /\ s[Len(s)] = " " THEN TrimRight(SubSeq(s, 1, Len(s) - 1)) ELSE s
Trim(s) == TrimRight(TrimLeft(s))

\* !password || typeof password !== 'string' || password.trim().length === 0
PasswordMissing(p) == p = None \/ p[1] = <<>> \/ Len(Trim(p[1])) = 0

\* String.prototype.split(',') : the pieces between the commas, empty ones kept
RECURSIVE SplitCommas(_, _)
SplitCommas(s, piece) ==
    IF s = <<>> THEN <<piece>>
    ELSE IF Head(s) = "," THEN <<piece>> \o SplitCommas(Tail(s), <<>>)
    ELSE SplitCommas(Tail(s), Append(piece, Head(s)))

\* Array.prototype.join(',')
RECURSIVE JoinCommas(_)
JoinCommas(list) ==
    IF list = <<>> THEN <<>>
    ELSE IF Len(list) = 1 THEN list[1]
    ELSE list[1] \o <<",">> \o JoinCommas(Tail(list))

\* filter((piece) => piece.length > 0)
RECURSIVE NonEmpty(_)
NonEmpty(list) ==
    IF list = <<>> THEN <<>>
    ELSE IF Len(Head(list)) > 0 THEN <<Head(list)>> \o NonEmpty(Tail(list))
    ELSE NonEmpty(Tail(list))

\* getEmailDomain: what follows the '@' of an address; a string without '@'
\* is taken to be a domain already
RECURSIVE getEmailDomain(_)
getEmailDomain(email) ==
    IF \A i \in 1..Len(email) : email[i] # "@" THEN email
    ELSE IF Head(email) = "@" THEN Tail(email)
    ELSE getEmailDomain(Tail(email))

\* the lower-case form of a letter, for a regular expression with the i flag
Lower(c) ==
    CASE c = "A" -> "a"
      [] c = "B" -> "b"
      [] c = "C" -> "c"
      [] c = "D" -> "d"
      [] c = "E" -> "e"
      [] c = "F" -> "f"
      [] c = "G" -> "g"
      [] c = "H" -> "h"
      [] c = "I" -> "i"
      [] c = "J" -> "j"
      [] c = "K" -> "k"
      [] c = "L" -> "l"
      [] c = "M" -> "m"
      [] c = "N" -> "n"
      [] c = "O" -> "o"
      [] c = "P" -> "p"
      [] c = "Q" -> "q"
      [] c = "R" -> "r"
      [] c = "S" -> "s"
      [] c = "T" -> "t"
      [] c = "U" -> "u"
      [] c = "V" -> "v"
      [] c = "W" -> "w"
      [] c = "X" -> "x"
      [] c = "Y" -> "y"
      [] c = "Z" -> "z"
      [] OTHER -> c

\* ------------------------------------------------- creation: the outcomes
Reject400 == [code |-> 400, row |-> None]
Persist(maxViews, preventBurn, expiresAt, createdAt) ==
    [code |-> 200,
     row |-> Some([maxViews |-> maxViews, preventBurn |-> preventBurn,
                   expiresAt |-> expiresAt, createdAt |-> createdAt,
                   password |-> None, allowed_ip |-> None])]

\* an expiry computed without the fallback: Date.now() + parseInt(ttl) * 1000
ExpiresAtPostNoFallback(t, ttl) == t + ParseIntNum(ttl)[1] * 1000

\* Date.now() + (parseInt(ttl) ? parseInt(ttl) * 1000 : DEFAULT_EXPIRATION)
ExpiresAtPost(t, ttl) ==
    LET p == ParseIntNum(ttl)
    IN  t + (IF ~IsNaN(p) /\ p[1] # 0 THEN p[1] * 1000 ELSE DEFAULT_EXPIRATION)

\* a lifetime added in seconds to an instant in milliseconds
ExpiresAtGetSeconds(t, ttlNum) == t + ttlNum

\* Date.now() + ttlNum * 1000
ExpiresAtGet(t, ttlNum) == t + ttlNum * 1000

\* a range check that lost its upper bound
MaxViewsInvalidNoLimit(mv, limit) == IsNaN(mv) \/ mv[1] < 1

\* isNaN(maxViewsNum) || maxViewsNum < 1 || maxViewsNum > limit
MaxViewsInvalid(mv, limit) == IsNaN(mv) \/ mv[1] < 1 \/ mv[1] > limit

\* schema: { type: 'integer', minimum: lo, maximum: hi }, field optional
IntInRange(o, lo, hi) == o = None \/ (o[1] >= lo /\ o[1] <= hi)
\* schema: { type: 'integer', minimum: 1, enum: VALID_TTL }
TtlSchemaOK(o) == o = None \/ (o[1] >= 1 /\ o[1] \in VALID_TTL)
\* schema: { type: 'string', pattern: '^\d+$' }
DigitsSchemaOK(o) == o = None \/ MatchesDigits(o[1])
\* schema: { type: 'string', enum: ['true', 'false'] }
BoolStringSchemaOK(o) == o = None \/ o[1] \in {"true", "false"}

\* --------------------------------------------- creation: the six handlers
\* Each handler maps a request, the instant t = Date.now() and the burn
\* policy to Reject400 or to the row it hands to prisma.secret.create.

\* POST /api/encrypt
encryptSecretPost(req, t, burn) ==
    LET ttl == OrDefault(req.ttl, 86400)
        maxViews == OrDefault(req.maxViews, 1)
        preventBurn == OrDefault(req.preventBurn, FALSE)
        maxViewsNum == ParseIntNum(maxViews)
    IN  IF \/ req.password = None \/ Len(req.password[1]) < 1
           \/ ~TtlSchemaOK(req.ttl)
           \/ ~IntInRange(req.maxViews, 1, maxViewsLimit)
        THEN Reject400
        ELSE IF PasswordMissing(req.password) THEN Reject400
        ELSE IF MaxViewsInvalid(maxViewsNum, maxViewsLimit) THEN Reject400
        ELSE IF ~burn /\ preventBurn = FALSE THEN Reject400
        ELSE Persist(maxViewsNum[1], IF burn THEN preventBurn ELSE TRUE,
                     ExpiresAtPost(t, ttl), t)

\* GET /api/encrypt
encryptSecretGet(req, t, burn) ==
    LET ttl == OrDefault(req.ttl, <<"8", "6", "4", "0", "0">>)
        maxViews == OrDefault(req.maxViews, <<"1">>)
        preventBurn == OrDefault(req.preventBurn, "false")
        ttlNum == ParseInt(ttl)
        maxViewsNum == ParseInt(maxViews)
        preventBurnBool == (preventBurn = "true")
    IN  IF \/ req.password = None
           \/ ~DigitsSchemaOK(req.ttl)
           \/ ~DigitsSchemaOK(req.maxViews)
           \/ ~BoolStringSchemaOK(req.preventBurn)
        THEN Reject400
        ELSE IF PasswordMissing(req.password) THEN Reject400
        ELSE IF IsNaN(ttlNum) \/ ttlNum[1] \notin VALID_TTL THEN Reject400
        ELSE IF MaxViewsInvalid(maxViewsNum, maxViewsLimit) THEN Reject400
        ELSE IF ~burn /\ ~preventBurnBool THEN Reject400
        ELSE Persist(maxViewsNum[1], IF burn THEN preventBurnBool ELSE TRUE,
                     ExpiresAtGet(t, ttlNum[1]), t)

\* !numbers && !symbols && !uppercase && !lowercase, the flags defaulting to true
NoCharacterSet(req) ==
    /\ ~OrDefault(req.numbers, TRUE) /\ ~OrDefault(req.symbols, TRUE)
    /\ ~OrDefault(req.uppercase, TRUE) /\ ~OrDefault(req.lowercase, TRUE)

\* the same test on query strings: flag === 'true', the flags defaulting to 'true'
NoCharacterSetQuery(req) ==
    /\ OrDefault(req.numbers, "true") # "true"
    /\ OrDefault(req.symbols, "true") # "true"
    /\ OrDefault(req.uppercase, "true") # "true"
    /\ OrDefault(req.lowercase, "true") # "true"

FlagsSchemaOK(req) ==
    /\ BoolStringSchemaOK(req.numbers) /\ BoolStringSchemaOK(req.symbols)
    /\ BoolStringSchemaOK(req.uppercase) /\ BoolStringSchemaOK(req.lowercase)

\* POST /api/password/generate, first definition of the controller
passwordPost1(req, t, burn) ==
    LET length == OrDefault(req.length, 16)
        ttl == OrDefault(req.ttl, 86400)
        maxViews == OrDefault(req.maxViews, 1)
    IN  IF \/ ~IntInRange(req.length, 4, 128)
           \/ ~TtlSchemaOK(req.ttl)
           \/ ~IntInRange(req.maxViews, 1, LegacyMaxViews)
        THEN Reject400
        ELSE IF NoCharacterSet(req) THEN Reject400
        ELSE IF length < 4 \/ length > 128 THEN Reject400
        ELSE Persist(maxViews, FALSE, ExpiresAtPost(t, ttl), t)

\* GET /api/password/generate, first definition of the controller
passwordGet1(req, t, burn) ==
    LET lengthNum == ParseInt(OrDefault(req.length, <<"1", "6">>))
        ttlNum == ParseInt(OrDefault(req.ttl, <<"8", "6", "4", "0", "0">>))
        maxViewsNum == ParseInt(OrDefault(req.maxViews, <<"1">>))
    IN  IF \/ ~DigitsSchemaOK(req.length)
           \/ ~DigitsSchemaOK(req.ttl)
           \/ ~DigitsSchemaOK(req.maxViews)
           \/ ~FlagsSchemaOK(req)
        THEN Reject400
        ELSE IF IsNaN(lengthNum) \/ lengthNum[1] < 4 \/ lengthNum[1] > 128
        THEN Reject400
        ELSE IF IsNaN(ttlNum) \/ ttlNum[1] \notin VALID_TTL THEN Reject400
        ELSE IF MaxViewsInvalid(maxViewsNum, LegacyMaxViews) THEN Reject400
        ELSE IF NoCharacterSetQuery(req) THEN Reject400
        ELSE Persist(maxViewsNum[1], FALSE, ExpiresAtGet(t, ttlNum[1]), t)

\* POST /api/password/generate, second definition of the controller
passwordPost2(req, t, burn) ==
    LET length == OrDefault(req.length, 16)
        ttl == OrDefault(req.ttl, 86400)
        maxViews == OrDefault(req.maxViews, 1)
        preventBurn == OrDefault(req.preventBurn, FALSE)
        maxViewsNum == ParseIntNum(maxViews)
    IN  IF \/ ~IntInRange(req.length, 4, 128)
           \/ ~TtlSchemaOK(req.ttl)
           \/ ~IntInRange(req.maxViews, 1, maxViewsLimit)
        THEN Reject400
        ELSE IF NoCharacterSet(req) THEN Reject400
        ELSE IF length < 4 \/ length > 128 THEN Reject400
        ELSE IF MaxViewsInvalid(maxViewsNum, maxViewsLimit) THEN Reject400
        ELSE IF ~burn /\ preventBurn = FALSE THEN Reject400
        ELSE Persist(maxViewsNum[1], IF burn THEN preventBurn ELSE TRUE,
                     ExpiresAtPost(t, ttl), t)

\* GET /api/password/generate, second definition of the controller
passwordGet2(req, t, burn) ==
    LET lengthNum == ParseInt(OrDefault(req.length, <<"1", "6">>))
        ttlNum == ParseInt(OrDefault(req.ttl, <<"8", "6", "4", "0", "0">>))
        maxViewsNum == ParseInt(OrDefault(req.maxViews, <<"1">>))
        preventBurnBool == (OrDefault(req.preventBurn, "false") = "true")
    IN  IF \/ ~DigitsSchemaOK(req.length)
           \/ ~DigitsSchemaOK(req.ttl)
           \/ ~DigitsSchemaOK(req.maxViews)
           \/ ~FlagsSchemaOK(req)
           \/ ~BoolStringSchemaOK(req.preventBurn)
           \/ ~BoolStringSchemaOK(req.showPassword)
        THEN Reject400
        ELSE IF IsNaN(lengthNum) \/ lengthNum[1] < 4 \/ lengthNum[1] > 128
        THEN Reject400
        ELSE IF IsNaN(ttlNum) \/ ttlNum[1] \notin VALID_TTL THEN Reject400
        ELSE IF MaxViewsInvalid(maxViewsNum, maxViewsLimit) THEN Reject400
        ELSE IF ~burn /\ ~preventBurnBool THEN Reject400
        ELSE IF NoCharacterSetQuery(req) THEN Reject400
        ELSE Persist(maxViewsNum[1], IF burn THEN preventBurnBool ELSE TRUE,
                     ExpiresAtGet(t, ttlNum[1]), t)

\* ------------------------------------------------- creation: the requests
\* The requests sent: each field absent or one of a few values, and at most
\* MaxFieldsSet of the optional fields present in one request.
BodyTtl == {None, Some(7), Some(300)}
BodyMaxViews == {None, Some(0), Some(maxViewsLimit), Some(maxViewsLimit + 1),
                 Some(LegacyMaxViews + 1)}
BodyPreventBurn == {None, Some(TRUE), Some(FALSE)}
BodyLength == {None, Some(3), Some(129)}
BodyFlag == {None, Some(FALSE)}
Passwords == {None, Some(<<>>), Some(<<" ">>), Some(<<"p", "w">>)}

QueryTtl == {None, Some(<<"7">>), Some(<<"3", "0", "0">>), Some(<<"5", "m">>)}
QueryMaxViews == {None, Some(<<"0">>), Some(<<"1", "0", "0">>),
                  Some(<<"1", "0", "1">>),
                  Some(<<"1", "0", "0", "0">>)}
QueryPreventBurn == {None, Some("true"), Some("false")}
QueryLength == {None, Some(<<"3">>), Some(<<"1", "2", "9">>)}
QueryFlag == {None, Some("false")}

FieldsSet(req, fields) == Cardinality({f \in fields : req[f] # None})

EncryptFields == {"ttl", "maxViews", "preventBurn"}
GenerateFields == {"length", "numbers", "ttl", "maxViews", "preventBurn",
                   "showPassword"}

\* a well-formed secret with any options, or a malformed one with none
EncryptShape(req) ==
    /\ FieldsSet(req, EncryptFields) <= MaxFieldsSet
    /\ req.password # Some(<<"p", "w">>) => FieldsSet(req, EncryptFields) = 0

EncryptBodies ==
    {req \in [password : Passwords, ttl : BodyTtl, maxViews : BodyMaxViews,
              preventBurn : BodyPreventBurn] : EncryptShape(req)}
EncryptQueries ==
    {req \in [password : Passwords, ttl : QueryTtl, maxViews : QueryMaxViews,
              preventBurn : QueryPreventBurn] : EncryptShape(req)}
GenerateBodies ==
    {req \in {[length |-> l, numbers |-> f, symbols |-> f, uppercase |-> f,
               lowercase |-> f, ttl |-> t, maxViews |-> m, preventBurn |-> b,
               showPassword |-> s] :
                 l \in BodyLength, f \in BodyFlag, t \in BodyTtl,
                 m \in BodyMaxViews, b \in BodyPreventBurn,
                 s \in {None, Some(TRUE), Some(FALSE)}} :
        FieldsSet(req, GenerateFields) <= MaxFieldsSet}
GenerateQueries ==
    {req \in {[length |-> l, numbers |-> f, symbols |-> f, uppercase |-> f,
               lowercase |-> f, ttl |-> t, maxViews |-> m, preventBurn |-> b,
               showPassword |-> s] :
                 l \in QueryLength, f \in QueryFlag, t \in QueryTtl,
                 m \in QueryMaxViews, b \in QueryPreventBurn,
                 s \in {None, Some("true"), Some("false")}} :
        FieldsSet(req, GenerateFields) <= MaxFieldsSet}

Handlers == {"encryptSecretPost", "encryptSecretGet", "passwordPost1",
             "passwordGet1", "passwordPost2", "passwordGet2"}
PostHandlers == {"encryptSecretPost", "passwordPost1", "passwordPost2"}
GetHandlers == Handlers \ PostHandlers

Requests(h) ==
    CASE h = "encryptSecretPost" -> EncryptBodies
      [] h = "encryptSecretGet" -> EncryptQueries
      [] h \in {"passwordPost1", "passwordPost2"} -> GenerateBodies
      [] h \in {"passwordGet1", "passwordGet2"} -> GenerateQueries

\* the requests that set no option but the lifetime
EncryptTtlOnly(ttls) ==
    {[password |-> Some(<<"p", "w">>), ttl |-> t, maxViews |-> None,
      preventBurn |-> None] : t \in ttls}
GenerateTtlOnly(ttls) ==
    {[length |-> None, numbers |-> None, symbols |-> None, uppercase |-> None,
      lowercase |-> None, ttl |-> t, maxViews |-> None, preventBurn |-> None,
      showPassword |-> None] :
        t \in ttls}
TtlRequests(h) ==
    CASE h = "encryptSecretPost" -> EncryptTtlOnly(BodyTtl)
      [] h = "encryptSecretGet" -> EncryptTtlOnly(QueryTtl)
      [] h \in {"passwordPost1", "passwordPost2"} -> GenerateTtlOnly(BodyTtl)
      [] h \in {"passwordGet1", "passwordGet2"} -> GenerateTtlOnly(QueryTtl)

Handle(h, req, t, burn) ==
    CASE h = "encryptSecretPost" -> encryptSecretPost(req, t, burn)
      [] h = "encryptSecretGet" -> encryptSecretGet(req, t, burn)
      [] h = "passwordPost1" -> passwordPost1(req, t, burn)
      [] h = "passwordGet1" -> passwordGet1(req, t, burn)
      [] h = "passwordPost2" -> passwordPost2(req, t, burn)
      [] h = "passwordGet2" -> passwordGet2(req, t, burn)

\* -------------------------------------------------- creation: the actions
NoReply == [code |-> 0, secretId |-> None]

\* whether the 200 response of the endpoint has the field password, the
\* generated password in plain text
ResponsePassword(h, req) ==
    CASE h \in {"passwordPost1", "passwordGet1"} -> TRUE
      [] h = "passwordPost2" -> OrDefault(req.showPassword, FALSE) = TRUE
      [] h = "passwordGet2" -> OrDefault(req.showPassword, "false") = "true"
      [] OTHER -> FALSE

\* A creation request up to and including prisma.secret.create: validation
\* replies 400; a store that throws lands in the catch block and replies 500.
CreateSecret(h, req) ==
    /\ nextId <= MaxSecrets /\ nextId <= MaxCreates
    /\ LET out == Handle(h, req, now, enableBurnAfterTime)
       IN  IF out.code = 400
           THEN /\ reply' = [code |-> 400, secretId |-> None]
                /\ UNCHANGED <<secretVars, inflight>>
           ELSE IF ~storeUp
           THEN /\ reply' = [code |-> 500, secretId |-> None]
                /\ UNCHANGED <<secretVars, inflight>>
           ELSE /\ secrets' = [secrets EXCEPT ![nextId] = out.row[1]]
                /\ remainingViews' =
                       [remainingViews EXCEPT ![nextId] = out.row[1].maxViews]
                /\ created' = [created EXCEPT ![nextId] = out.row[1]]
                /\ nextId' = nextId + 1
                /\ inflight' = inflight \cup
                       {[id |-> nextId, password |-> ResponsePassword(h, req),
                         showPassword |->
                             CASE h \in {"passwordPost1", "passwordPost2"} ->
                                      req.showPassword = Some(TRUE)
                               [] h \in {"passwordGet1", "passwordGet2"} ->
                                      req.showPassword = Some("true")
                               [] OTHER -> FALSE]}
                /\ UNCHANGED reply
    /\ UNCHANGED <<envVars, statistic, calls, procVars, sweepVars, policyVars>>

\* The rest of the request: prisma.statistic.upsert on 'secrets_created'
\* (create: value defaults to 1; update: increment 1), then the 200 reply.
StatisticUpsert(id) ==
    \E r \in inflight :
        /\ r.id = id
        /\ inflight' = inflight \ {r}
        /\ IF storeUp
           THEN /\ statistic' = IF statistic = None THEN Some(1)
                                ELSE Some(statistic[1] + 1)
                /\ reply' = [code |-> 200, secretId |-> Some(id),
                             password |-> r.password,
                             showPassword |-> r.showPassword]
           ELSE /\ reply' = [code |-> 500, secretId |-> None]
                /\ UNCHANGED statistic
    /\ UNCHANGED <<envVars, secretVars, calls, procVars, sweepVars, policyVars>>

\* ------------------------------------------------------- the environment
Tick(t) ==
    /\ t \in Instants /\ t > now
    /\ now' = t
    /\ UNCHANGED <<storeUp, enableBurnAfterTime, secretVars, createVars, calls,
                   procVars, sweepVars, policyVars>>

StoreFails ==
    /\ storeUp /\ storeUp' = FALSE
    /\ UNCHANGED <<now, enableBurnAfterTime, secretVars, createVars, calls,
                   procVars, sweepVars, policyVars>>

StoreRecovers ==
    /\ ~storeUp /\ storeUp' = TRUE
    /\ UNCHANGED <<now, enableBurnAfterTime, secretVars, createVars, calls,
                   procVars, sweepVars, policyVars>>

\* ------------------------------------------------------------ the sweeper
\* a sweep whose comparison is turned around: gte instead of lte
DeleteUnexpired(S, t) ==
    [id \in Ids |-> IF S[id] # NoRow /\ S[id].expiresAt >= t THEN NoRow
                    ELSE S[id]]

\* a sweep whose comparison is strict: lt instead of lte
DeleteExpiredStrict(S, t) ==
    [id \in Ids |-> IF S[id] # NoRow /\ S[id].expiresAt < t THEN NoRow
                    ELSE S[id]]

\* a sweep that deletes one row per run: the expired row of the lowest id
DeleteExpiredOne(S, t) ==
    [id \in Ids |->
        IF /\ S[id] # NoRow /\ S[id].expiresAt <= t
           /\ \A j \in 1..(id - 1) : S[j] = NoRow \/ S[j].expiresAt > t
        THEN NoRow ELSE S[id]]

\* prisma.secret.deleteMany({ where: { expiresAt: { lte: t } } })
DeleteExpired(S, t) ==
    [id \in Ids |-> IF S[id] # NoRow /\ S[id].expiresAt <= t THEN NoRow
                    ELSE S[id]]

\* deleteMany resolves to { count }: the rows of S that T no longer holds
Deleted(S, T) == Cardinality({id \in Ids : S[id] # NoRow /\ T[id] = NoRow})

\* the view budget of a deleted row goes with the row
Budget(S, R) == [id \in Ids |-> IF S[id] = NoRow THEN 0 ELSE R[id]]

\* One firing of the interval timer: dbCleaner() is called, not awaited, and
\* issues deleteMany with new Date() taken at the call.
SweepTick(p) ==
    /\ timer[p] /\ alive[p]
    /\ Cardinality(sweeps) < MaxSweeps
    /\ [proc |-> p, at |-> now] \notin sweeps
    /\ sweeps' = sweeps \cup {[proc |-> p, at |-> now]}
    /\ UNCHANGED <<envVars, secretVars, createVars, calls, procVars, sweepLog,
                   policyVars>>

\* a rejection nobody catches: the process ends
Uncaught(running, p) == [running EXCEPT ![p] = FALSE]

\* catch (err) { console.error(...) }: the processes running after a throw
Caught(running, p) == running

\* a sweep that compares with the instant the store serves it, not with the
\* instant the sweep was fired at
dbCleanerAtStoreTime(s) ==
    /\ s \in sweeps
    /\ sweeps' = sweeps \ {s}
    /\ IF storeUp
       THEN /\ secrets' = DeleteExpired(secrets, now)
            /\ remainingViews' = Budget(secrets', remainingViews)
            /\ sweepLog' = [outcome |-> "swept", at |-> s.at,
                            count |-> Deleted(secrets, secrets')]
            /\ UNCHANGED alive
       ELSE /\ sweepLog' = [outcome |-> "caught", at |-> s.at, count |-> 0]
            /\ alive' = Caught(alive, s.proc)
            /\ UNCHANGED <<secrets, remainingViews>>
    /\ UNCHANGED <<envVars, nextId, created, createVars, calls, boot, timer,
                   adminSettings, policyVars>>

\* dbCleaner: the deleteMany reaches the store, or throws into the catch block
dbCleaner(s) ==
    /\ s \in sweeps
    /\ sweeps' = sweeps \ {s}
    /\ IF storeUp
       THEN /\ secrets' = DeleteExpired(secrets, s.at)
            /\ remainingViews' = Budget(secrets', remainingViews)
            /\ sweepLog' = [outcome |-> "swept", at |-> s.at,
                            count |-> Deleted(secrets, secrets')]
            /\ UNCHANGED alive
       ELSE /\ sweepLog' = [outcome |-> "caught", at |-> s.at, count |-> 0]
            /\ alive' = Caught(alive, s.proc)
            /\ UNCHANGED <<secrets, remainingViews>>
    /\ UNCHANGED <<envVars, nextId, created, createVars, calls, boot, timer,
                   adminSettings, policyVars>>

\* ---------------------------------------------------------- the bootstrap
\* config.get('instance') of each process
instanceConfig(p) ==
    IF p = "A"
    THEN [readOnly |-> FALSE, disableIpRestriction |-> FALSE,
          restrictOrganizationEmail |-> <<>>]
    ELSE [readOnly |-> TRUE, disableIpRestriction |-> TRUE,
          restrictOrganizationEmail |->
              <<"o", "p", "s", "@", "x", ".", "i", "o", ",", " ", "y", ".", "i", "o">>]

\* restrictEmailDomains: the configured list as comma-separated domains
restrictEmailDomains(configured) ==
    IF configured = <<>> THEN <<>>
    ELSE LET pieces == SplitCommas(configured, <<>>)
             domains == NonEmpty([i \in 1..Len(pieces) |-> Trim(pieces[i])])
         IN  JoinCommas([i \in 1..Len(domains) |-> getEmailDomain(domains[i])])

\* the data of the upsert of createAdminSettings, the same in its update and
\* its create branch, for the configuration of each process
upsertData ==
    [p \in Procs |->
        [read_only |-> instanceConfig(p).readOnly,
         hide_allowed_ip_input |-> instanceConfig(p).disableIpRestriction,
         restrict_organization_email |->
             restrictEmailDomains(instanceConfig(p).restrictOrganizationEmail)]]

\* an upsert whose update branch writes read_only alone
upsertReadOnlyAlone(p) ==
    IF settings = NoRow THEN upsertData[p]
    ELSE [settings EXCEPT !.read_only = upsertData[p].read_only]

\* the row the upsert of createAdminSettings writes and returns
EnvSettings(p) == upsertData[p]

\* a bootstrap that fills the cache from its environment when the upsert throws
createAdminSettingsCachingAnyway(p) ==
    /\ alive[p] /\ boot[p] = "createAdminSettings"
    /\ IF storeUp
       THEN /\ settings' = EnvSettings(p)
            /\ boot' = [boot EXCEPT ![p] = "updateAdminSettings"]
            /\ UNCHANGED adminSettings
       ELSE /\ boot' = [boot EXCEPT ![p] = "failed"]
            /\ adminSettings' = [adminSettings EXCEPT ![p] = EnvSettings(p)]
            /\ UNCHANGED settings
    /\ UNCHANGED <<envVars, secretVars, createVars, calls, timer, alive,
                   sweepVars, rootUser, pending>>

\* createAdminSettings, up to the upsert; a throw ends main() in its catch
createAdminSettings(p) ==
    /\ alive[p] /\ boot[p] = "createAdminSettings"
    /\ IF storeUp
       THEN /\ settings' = EnvSettings(p)
            /\ boot' = [boot EXCEPT ![p] = "updateAdminSettings"]
       ELSE /\ boot' = [boot EXCEPT ![p] = "failed"]
            /\ UNCHANGED settings
    /\ UNCHANGED <<envVars, secretVars, createVars, calls, timer, alive,
                   adminSettings, sweepVars, rootUser, pending>>

\* updateAdminSettings(settings) with the row the upsert returned
updateAdminSettings(p) ==
    /\ alive[p] /\ boot[p] = "updateAdminSettings"
    /\ adminSettings' = [adminSettings EXCEPT ![p] = EnvSettings(p)]
    /\ boot' = [boot EXCEPT ![p] = "createRootUser"]
    /\ UNCHANGED <<envVars, secretVars, createVars, calls, timer, alive,
                   sweepVars, policyVars>>

\* a main() whose setInterval is outside the try block
createRootUserThenTimer(p) ==
    /\ alive[p] /\ boot[p] = "createRootUser"
    /\ IF ~storeUp
       THEN /\ boot' = [boot EXCEPT ![p] = "failed"]
            /\ timer' = [timer EXCEPT ![p] = TRUE]
       ELSE IF rootUser > 0
       THEN /\ boot' = [boot EXCEPT ![p] = "running"]
            /\ timer' = [timer EXCEPT ![p] = TRUE]
       ELSE /\ boot' = [boot EXCEPT ![p] = "createUser"]
            /\ UNCHANGED timer
    /\ UNCHANGED <<envVars, secretVars, createVars, calls, alive,
                   adminSettings, sweepVars, policyVars>>

\* createRootUser, the findFirst; when the root user is there main() goes on
\* to setInterval
createRootUser(p) ==
    /\ alive[p] /\ boot[p] = "createRootUser"
    /\ IF ~storeUp
       THEN /\ boot' = [boot EXCEPT ![p] = "failed"]
            /\ UNCHANGED timer
       ELSE IF rootUser > 0
       THEN /\ boot' = [boot EXCEPT ![p] = "running"]
            /\ timer' = [timer EXCEPT ![p] = TRUE]
       ELSE /\ boot' = [boot EXCEPT ![p] = "createUser"]
            /\ UNCHANGED timer
    /\ UNCHANGED <<envVars, secretVars, createVars, calls, alive,
                   adminSettings, sweepVars, policyVars>>

\* a prisma.user.create on a table without the unique indexes
createUserUnindexed(p) ==
    /\ alive[p] /\ boot[p] = "createUser"
    /\ IF ~storeUp
       THEN /\ boot' = [boot EXCEPT ![p] = "failed"]
            /\ UNCHANGED <<timer, rootUser>>
       ELSE /\ rootUser' = rootUser + 1
            /\ boot' = [boot EXCEPT ![p] = "running"]
            /\ timer' = [timer EXCEPT ![p] = TRUE]
    /\ UNCHANGED <<envVars, secretVars, createVars, calls, alive,
                   adminSettings, sweepVars, settings, pending>>

\* createRootUser, the prisma.user.create; the unique indexes on username and
\* email make it throw when the user is there by now
createUser(p) ==
    /\ alive[p] /\ boot[p] = "createUser"
    /\ IF ~storeUp \/ rootUser > 0
       THEN /\ boot' = [boot EXCEPT ![p] = "failed"]
            /\ UNCHANGED <<timer, rootUser>>
       ELSE /\ rootUser' = rootUser + 1
            /\ boot' = [boot EXCEPT ![p] = "running"]
            /\ timer' = [timer EXCEPT ![p] = TRUE]
    /\ UNCHANGED <<envVars, secretVars, createVars, calls, alive,
                   adminSettings, sweepVars, settings, pending>>

\* ------------------------------------------------- administrative updates
\* The settings controller is not part of the sources at hand; spec.md 4.4 has
\* the update write through: the row is written to the store, then the returned
\* row is handed to updateAdminSettings.
SettingsRows ==
    [read_only : BOOLEAN, hide_allowed_ip_input : {FALSE},
     restrict_organization_email :
         {<<>>, <<" ", "x", ".", "i", "o", " ", ",", " ", "y", ".", "i", "o">>}]

\* the store write of an update; a throw leaves the cache as it is
putSettings(p, row) ==
    /\ alive[p] /\ pending[p] = None /\ row \in SettingsRows
    /\ IF storeUp
       THEN /\ settings' = row
            /\ pending' = [pending EXCEPT ![p] = Some(row)]
       ELSE UNCHANGED <<settings, pending>>
    /\ UNCHANGED <<envVars, secretVars, createVars, calls, procVars, sweepVars,
                   rootUser>>

\* updateAdminSettings(settings) with the row the store write returned
cacheSettings(p) ==
    /\ alive[p] /\ pending[p] # None
    /\ adminSettings' = [adminSettings EXCEPT ![p] = pending[p][1]]
    /\ pending' = [pending EXCEPT ![p] = None]
    /\ UNCHANGED <<envVars, secretVars, createVars, calls, boot, timer, alive,
                   sweepVars, settings, rootUser>>

\* ------------------------------------------------------- the policy gates
\* The hooks that run before the handlers are not part of the sources at hand;
\* spec.md 4.1 step 6: readOnly denies creation, not reads, to callers whose
\* role is neither admin nor creator.
Roles == {"admin", "creator", "user", "anonymous"}

\* a cache that reads as not read-only while nothing was loaded
ReadOnlyFailingOpen(p) == adminSettings[p] # NoRow /\ adminSettings[p].read_only

\* read_only as the PolicyCache of process p returns it: the cached value, and
\* the restrictive one while no load has succeeded (spec.md 7)
ReadOnly(p) == adminSettings[p] = NoRow \/ adminSettings[p].read_only

\* a gate that stops signed-in users only
readOnlyHandlerSignedIn(role, p) == ReadOnly(p) /\ role = "user"

\* whether the gate denies a creation request of a caller with this role
readOnlyHandler(role, p) == ReadOnly(p) /\ role \notin {"admin", "creator"}

\* a creation request arriving at process p: the gate, then the handler
createSecretRequest(p, role, h, req) ==
    /\ alive[p]
    /\ IF readOnlyHandler(role, p)
       THEN /\ reply' = [code |-> 403, secretId |-> None]
            /\ UNCHANGED <<envVars, secretVars, statistic, inflight, calls,
                           procVars, sweepVars, policyVars>>
       ELSE CreateSecret(h, req)

\* authenticationRegex.test(url): /^\/api\/authentication\/signup.*$/i
authenticationRegex(url) ==
    LET path == <<"/", "a", "p", "i", "/", "a", "u", "t", "h", "e", "n", "t", "i", "c", "a", "t", "i", "o", "n", "/", "s", "i", "g", "n", "u", "p">>
    IN  /\ Len(url) >= Len(path)
        /\ \A i \in 1..Len(path) : Lower(url[i]) = path[i]

\* adminSettings.get('restrict_organization_email') in process p: undefined
\* while nothing was cached
Restrict(p) ==
    IF adminSettings[p] = NoRow THEN None
    ELSE Some(adminSettings[p].restrict_organization_email)

\* the list split at its commas, the blanks around the pieces left in
allowedDomainsUntrimmed(restrict) == NonEmpty(SplitCommas(restrict, <<>>))

\* restrict.split(',').map(trim).filter(length > 0)
allowedDomains(restrict) ==
    LET pieces == SplitCommas(restrict, <<>>)
    IN  NonEmpty([i \in 1..Len(pieces) |-> Trim(pieces[i])])

\* restrictOrganizationEmailHandler: 403 when it denies, 0 when it returns
\* without a reply
restrictOrganizationEmailHandler(restrict, url, email) ==
    IF restrict = None \/ restrict[1] = <<>> \/ ~authenticationRegex(url) THEN 0
    ELSE LET allowed == allowedDomains(restrict[1])
             userDomain == getEmailDomain(email)
             isAllowed == \E i \in 1..Len(allowed) :
                              getEmailDomain(allowed[i]) = userDomain
         IN  IF isAllowed THEN 0 ELSE 403

\* request.url and request.body.email ('' when the body has none)
SignupRequests ==
    {<<"/", "a", "p", "i", "/", "a", "u", "t", "h", "e", "n", "t", "i", "c", "a", "t", "i", "o", "n", "/", "s", "i", "g", "n", "u", "p">>,
     <<"/", "A", "P", "I", "/", "A", "u", "t", "h", "e", "n", "t", "i", "c", "a", "t", "i", "o", "n", "/", "S", "i", "g", "n", "U", "p", "/", "x">>,
     <<"/", "a", "p", "i", "/", "a", "u", "t", "h", "e", "n", "t", "i", "c", "a", "t", "i", "o", "n", "/", "s", "i", "g", "n", "i", "n">>,
     <<"/", "v", "/", "a", "p", "i", "/", "a", "u", "t", "h", "e", "n", "t", "i", "c", "a", "t", "i", "o", "n", "/", "s", "i", "g", "n", "u", "p">>}
    \X {<<>>, <<"a", "@", "x", ".", "i", "o">>, <<"a", "@", "y", ".", "i", "o">>, <<"a", "@", "z", ".", "i", "o">>, <<"a", "@", "X", ".", "i", "o">>}

\* a request passing the hook in process p
signupRequest(p, url, email) ==
    /\ alive[p]
    /\ reply' = [code |-> restrictOrganizationEmailHandler(Restrict(p), url, email),
                 secretId |-> None]
    /\ UNCHANGED <<envVars, secretVars, statistic, inflight, calls, procVars,
                   sweepVars, policyVars>>

\* ---------------------------------------------------------- the view path
\* spec.md 4.1 AccessGate, 4.2 ViewConsumer, 6 store contract.
Attempts == [password : {None, Some("guess")}, ip : {"198.51.100.7"}]

Denials == {"NotFound", "Expired", "Exhausted", "Unauthorized", "Forbidden",
            "StoreUnavailable"}

\* adminSettings.get('hide_allowed_ip_input') in process p
HideAllowedIpInput(p) ==
    adminSettings[p] # NoRow /\ adminSettings[p].hide_allowed_ip_input

\* a gate that checks exhaustion before expiry
evaluateExhaustionFirst(id, attempt, p) ==
    IF ~HasRow(id) THEN "NotFound"
    ELSE IF remainingViews[id] <= 0 THEN "Exhausted"
    ELSE IF now >= secrets[id].expiresAt THEN "Expired"
    ELSE "Admit"

\* a gate that verifies the password before it looks at expiry and exhaustion
evaluatePasswordFirst(id, attempt, p) ==
    IF ~HasRow(id) THEN "NotFound"
    ELSE IF secrets[id].password # None /\ attempt.password # secrets[id].password
    THEN "Unauthorized"
    ELSE IF now >= secrets[id].expiresAt THEN "Expired"
    ELSE IF remainingViews[id] <= 0 THEN "Exhausted"
    ELSE IF /\ secrets[id].allowed_ip # None /\ ~HideAllowedIpInput(p)
            /\ attempt.ip # secrets[id].allowed_ip[1]
    THEN "Forbidden"
    ELSE "Admit"

\* AccessGate.evaluate: the first failing check names the denial
evaluate(id, attempt, p) ==
    IF ~HasRow(id) THEN "NotFound"
    ELSE IF now >= secrets[id].expiresAt THEN "Expired"
    ELSE IF remainingViews[id] <= 0 THEN "Exhausted"
    ELSE IF secrets[id].password # None /\ attempt.password # secrets[id].password
    THEN "Unauthorized"
    ELSE IF /\ secrets[id].allowed_ip # None /\ ~HideAllowedIpInput(p)
            /\ attempt.ip # secrets[id].allowed_ip[1]
    THEN "Forbidden"
    ELSE "Admit"

\* what holds of the secret at the instant the gate looks at it
GateView(id) ==
    [present |-> HasRow(id),
     expired |-> created[id] # NoRow /\ now >= created[id].expiresAt,
     exhausted |-> HasRow(id) /\ remainingViews[id] = 0]

IdleCall == [pc |-> "idle", id |-> 0, result |-> "none",
             gate |-> [present |-> FALSE, expired |-> FALSE, exhausted |-> FALSE]]

\* viewSecret, up to the gate's verdict: getSecret, then evaluate.  Calls are
\* numbered in the order they arrive.
viewSecret(c, id, attempt, p) ==
    /\ calls[c].pc = "idle" /\ alive[p]
    /\ \A d \in 1..(c - 1) : calls[d].pc # "idle"
    /\ IF ~storeUp
       THEN calls' = [calls EXCEPT ![c] =
                [pc |-> "done", id |-> id, result |-> "StoreUnavailable",
                 gate |-> GateView(id)]]
       ELSE LET verdict == evaluate(id, attempt, p)
            IN  calls' = [calls EXCEPT ![c] =
                    [pc |-> CASE verdict = "Admit" -> "admitted"
                              [] verdict = "Expired" -> "eager"
                              [] OTHER -> "done",
                     id |-> id,
                     result |-> IF verdict = "Admit" THEN "none" ELSE verdict,
                     gate |-> GateView(id)]]
    /\ UNCHANGED <<envVars, secretVars, createVars, procVars, sweepVars,
                   policyVars>>

\* a consumer that never deletes the row it exhausted
BurnsNever(row, burn) == FALSE

\* a consumer that looks at the flag of the secret only, not at the instance
BurnsWhateverThePolicy(row, burn) == ~row.preventBurn

\* the deletion that follows the n-th view: unless preventBurn is set, and only
\* when the instance burns on exhaustion at all
BurnsOnExhaustion(row, burn) == burn /\ ~row.preventBurn

\* an off-by-one guard: a budget of 0 still admits a view
HasBudgetOffByOne(r) == r >= 0

\* the guard of the conditional update
HasBudget(r) == r > 0

\* ViewConsumer.consume: atomicConsumeView, one atomic store operation
consume(c) ==
    /\ calls[c].pc = "admitted"
    /\ LET id == calls[c].id
       IN  IF ~storeUp
           THEN /\ calls' = [calls EXCEPT ![c].pc = "done",
                                          ![c].result = "StoreUnavailable"]
                /\ UNCHANGED <<secrets, remainingViews>>
           ELSE IF ~HasRow(id)
           THEN /\ calls' = [calls EXCEPT ![c].pc = "done",
                                          ![c].result = "NotFound"]
                /\ UNCHANGED <<secrets, remainingViews>>
           ELSE IF ~HasBudget(remainingViews[id])
           THEN /\ calls' = [calls EXCEPT ![c].pc = "done",
                                          ![c].result = "Exhausted"]
                /\ UNCHANGED <<secrets, remainingViews>>
           ELSE /\ calls' = [calls EXCEPT ![c].pc = "done",
                                          ![c].result = "Payload"]
                /\ IF /\ remainingViews[id] - 1 = 0
                      /\ BurnsOnExhaustion(secrets[id], enableBurnAfterTime)
                   THEN /\ secrets' = [secrets EXCEPT ![id] = NoRow]
                        /\ remainingViews' = [remainingViews EXCEPT ![id] = 0]
                   ELSE /\ remainingViews' =
                               [remainingViews EXCEPT ![id] = @ - 1]
                        /\ UNCHANGED secrets
    /\ UNCHANGED <<envVars, nextId, created, createVars, procVars, sweepVars,
                   policyVars>>

\* an eager deletion by a delete of one row, which rejects when the row is gone
eagerDeleteOrThrow(c) ==
    /\ calls[c].pc = "eager"
    /\ IF storeUp /\ HasRow(calls[c].id)
       THEN /\ calls' = [calls EXCEPT ![c].pc = "done"]
            /\ secrets' = [secrets EXCEPT ![calls[c].id] = NoRow]
            /\ remainingViews' = [remainingViews EXCEPT ![calls[c].id] = 0]
       ELSE /\ calls' = [calls EXCEPT ![c].pc = "done",
                                      ![c].result = "StoreUnavailable"]
            /\ UNCHANGED <<secrets, remainingViews>>
    /\ UNCHANGED <<envVars, nextId, created, createVars, procVars, sweepVars,
                   policyVars>>

\* the eager deletion on the Expired path: deleteIfExists
eagerDelete(c) ==
    /\ calls[c].pc = "eager"
    /\ calls' = [calls EXCEPT ![c].pc = "done"]
    /\ IF storeUp /\ HasRow(calls[c].id)
       THEN /\ secrets' = [secrets EXCEPT ![calls[c].id] = NoRow]
            /\ remainingViews' = [remainingViews EXCEPT ![calls[c].id] = 0]
       ELSE UNCHANGED <<secrets, remainingViews>>
    /\ UNCHANGED <<envVars, nextId, created, createVars, procVars, sweepVars,
                   policyVars>>

\* ------------------------------------------------------ the specifications
\* process A has finished main() and serves requests; B has not been started
Bootstrapped ==
    /\ boot = [p \in Procs |-> IF p = "A" THEN "running" ELSE "createAdminSettings"]
    /\ timer = [p \in Procs |-> p = "A"]
    /\ alive = [p \in Procs |-> p = "A"]
    /\ adminSettings = [p \in Procs |-> IF p = "A" THEN EnvSettings(p) ELSE NoRow]
    /\ settings = EnvSettings("A")
    /\ rootUser = 1
    /\ pending = [p \in Procs |-> None]

Quiet ==
    /\ now = 0
    /\ storeUp = TRUE
    /\ enableBurnAfterTime \in BOOLEAN
    /\ statistic = None
    /\ inflight = {}
    /\ reply = NoReply
    /\ calls = [c \in 1..MaxCalls |-> IdleCall]
    /\ sweeps = {}
    /\ sweepLog = [outcome |-> "none", at |-> 0, count |-> 0]

EmptyStore ==
    /\ secrets = [id \in Ids |-> NoRow]
    /\ remainingViews = [id \in Ids |-> 0]
    /\ created = [id \in Ids |-> NoRow]
    /\ nextId = 1

Init == Quiet /\ EmptyStore /\ Bootstrapped

\* Requests for a five-minute secret of one or two views: the rows the six
\* endpoints persist for them are the secrets a store holds when viewing and
\* sweeping start.
SeedRequests(h) ==
    CASE h = "encryptSecretPost" ->
           {[password |-> Some(<<"p", "w">>), ttl |-> Some(300), maxViews |-> m,
             preventBurn |-> b] : m \in {None, Some(2)}, b \in BodyPreventBurn}
      [] h = "encryptSecretGet" ->
           {[password |-> Some(<<"p", "w">>), ttl |-> Some(<<"3", "0", "0">>),
             maxViews |-> m, preventBurn |-> b] :
               m \in {None, Some(<<"2">>)}, b \in QueryPreventBurn}
      [] h \in {"passwordPost1", "passwordPost2"} ->
           {[length |-> None, numbers |-> None, symbols |-> None,
             uppercase |-> None, lowercase |-> None, ttl |-> Some(300),
             maxViews |-> m, preventBurn |-> b, showPassword |-> None] :
               m \in {None, Some(2)}, b \in BodyPreventBurn}
      [] h \in {"passwordGet1", "passwordGet2"} ->
           {[length |-> None, numbers |-> None, symbols |-> None,
             uppercase |-> None, lowercase |-> None,
             ttl |-> Some(<<"3", "0", "0">>), maxViews |-> m,
             preventBurn |-> b, showPassword |-> None] :
               m \in {None, Some(<<"2">>)}, b \in QueryPreventBurn}

\* the rows persisted for the seed requests sent at instant t
SeedRows(t, burn) ==
    UNION {{Handle(h, r, t, burn).row[1] :
              r \in {q \in SeedRequests(h) : Handle(h, q, t, burn).code = 200}} :
           h \in Handlers}

\* a store holding one secret, created at instant 0
OneSecret ==
    /\ \E row \in SeedRows(0, enableBurnAfterTime) :
          /\ secrets = [id \in Ids |-> IF id = 1 THEN row ELSE NoRow]
          /\ created = secrets
          /\ remainingViews = [id \in Ids |-> IF id = 1 THEN row.maxViews ELSE 0]
    /\ nextId = 2

InitView == Quiet /\ OneSecret /\ Bootstrapped

\* the instant the seed secret id was created at: 0 and SweepInterval in turn
SeedInstant(id) == IF id % 2 = 1 THEN 0 ELSE SweepInterval

\* the budgets a stored row can be left with: a row whose views are used up is
\* still stored only when the n-th view did not burn it
SeedBudgets(row, burn) ==
    {r \in 0..row.maxViews : r = 0 => ~BurnsOnExhaustion(row, burn)}

\* a store holding a secret under every id, created at two different instants,
\* some of their views used
FullStore ==
    /\ secrets \in [Ids -> UNION {SeedRows(t, enableBurnAfterTime) :
                                    t \in {0, SweepInterval}}]
    /\ \A id \in Ids : secrets[id].createdAt = SeedInstant(id)
    /\ created = secrets
    /\ remainingViews \in [Ids -> 0..2]
    /\ \A id \in Ids :
          remainingViews[id] \in SeedBudgets(secrets[id], enableBurnAfterTime)
    /\ nextId = MaxSecrets + 1

InitSweep == Quiet /\ FullStore /\ Bootstrapped

\* a store holding, under every id, a one-view secret that is kept when its
\* view is used, the view used or not
KeptSecrets ==
    /\ secrets \in [Ids -> UNION {SeedRows(t, enableBurnAfterTime) :
                                    t \in {0, SweepInterval}}]
    /\ \A id \in Ids : /\ secrets[id].createdAt = SeedInstant(id)
                       /\ secrets[id].maxViews = 1
                       /\ secrets[id].preventBurn
    /\ created = secrets
    /\ remainingViews \in [Ids -> 0..1]
    /\ nextId = MaxSecrets + 1

\* process A is about to run main(); B has not been started
Unstarted ==
    /\ boot = [p \in Procs |-> "createAdminSettings"]
    /\ timer = [p \in Procs |-> FALSE]
    /\ alive = [p \in Procs |-> p = "A"]
    /\ adminSettings = [p \in Procs |-> NoRow]
    /\ settings = NoRow
    /\ rootUser \in {0, 1}
    /\ pending = [p \in Procs |-> None]

\* every process is about to run main(); nothing was ever persisted
Replicas ==
    /\ boot = [p \in Procs |-> "createAdminSettings"]
    /\ timer = [p \in Procs |-> FALSE]
    /\ alive = [p \in Procs |-> TRUE]
    /\ adminSettings = [p \in Procs |-> NoRow]
    /\ settings = NoRow
    /\ rootUser = 0
    /\ pending = [p \in Procs |-> None]

InitReplicas == Quiet /\ EmptyStore /\ Replicas /\ enableBurnAfterTime = TRUE

\* every process is serving requests; its cache holds the row of its bootstrap
\* or of an update, or nothing when its bootstrap failed
PolicyLoaded ==
    /\ enableBurnAfterTime = TRUE
    /\ adminSettings \in [Procs -> {NoRow} \cup SettingsRows
                                      \cup {EnvSettings(p) : p \in Procs}]
    /\ \A p \in Procs : adminSettings[p] \in {NoRow, EnvSettings(p)} \cup SettingsRows
    /\ boot = [p \in Procs |->
                  IF adminSettings[p] = NoRow THEN "failed" ELSE "running"]
    /\ timer = [p \in Procs |-> adminSettings[p] # NoRow]
    /\ alive = [p \in Procs |-> TRUE]
    /\ settings \in SettingsRows \cup {EnvSettings(p) : p \in Procs}
    /\ rootUser = 1
    /\ pending = [p \in Procs |-> None]


InitService == Quiet /\ KeptSecrets /\ Unstarted

Environment ==
    \/ \E t \in Instants : Tick(t)
    \/ StoreFails
    \/ StoreRecovers

Creation ==
    \/ \E h \in Handlers : \E req \in Requests(h) : CreateSecret(h, req)
    \/ \E id \in Ids : StatisticUpsert(id)

TtlCreation ==
    \/ \E h \in Handlers : \E req \in TtlRequests(h) : CreateSecret(h, req)
    \/ \E id \in Ids : StatisticUpsert(id)

Viewing ==
    \/ \E c \in 1..MaxCalls, id \in Ids, a \in Attempts, p \in Procs :
           viewSecret(c, id, a, p)
    \/ \E c \in 1..MaxCalls : consume(c)
    \/ \E c \in 1..MaxCalls : eagerDelete(c)

Sweeping ==
    \/ \E p \in Procs : SweepTick(p)
    \/ \E s \in sweeps : dbCleaner(s)

Booting ==
    \/ \E p \in Procs : createAdminSettings(p)
    \/ \E p \in Procs : updateAdminSettings(p)
    \/ \E p \in Procs : createRootUser(p)
    \/ \E p \in Procs : createUser(p)

Next == Environment \/ Creation

Spec == Init /\ [][Next]_vars

\* requests of callers of every role on an instance whose policy is edited
\* (the clock stands still: no secret expires, so no view deletes eagerly)
Updating ==
    \/ \E p \in Procs, row \in SettingsRows : putSettings(p, row)
    \/ \E p \in Procs : cacheSettings(p)

NextPolicy ==
    \/ Updating
    \/ \E p \in Procs, role \in Roles :
          \E h \in Handlers : \E req \in TtlRequests(h) :
              createSecretRequest(p, role, h, req)
    \/ \E id \in Ids : StatisticUpsert(id)
    \/ \E c \in 1..MaxCalls, id \in Ids, a \in Attempts, p \in Procs :
           viewSecret(c, id, a, p)
    \/ \E c \in 1..MaxCalls : consume(c)

SpecPolicy == Init /\ [][NextPolicy]_vars

\* processes booting side by side on one store while the policy is edited
NextReplicas == StoreFails \/ StoreRecovers \/ Booting \/ Updating

SpecReplicas == InitReplicas /\ [][NextReplicas]_vars

\* an await that can go on does go on; when an update is sent, and whether the
\* store answers, is up to the environment
LiveReplicas ==
    /\ SpecReplicas
    /\ WF_vars(Booting)
    /\ \A p \in Procs : WF_vars(cacheSettings(p))

\* account requests passing the hook, whatever the processes have cached
InitSignup == Quiet /\ EmptyStore /\ PolicyLoaded

SpecSignup ==
    /\ InitSignup
    /\ [][\E p \in Procs, req \in SignupRequests :
             signupRequest(p, req[1], req[2])]_vars

NextView == (\E t \in Instants : Tick(t)) \/ Viewing \/ Sweeping

SpecView == InitView /\ [][NextView]_vars

\* secrets created with the lifetimes a caller can ask for, and swept
NextLife == Environment \/ TtlCreation \/ Sweeping

SpecLife == Init /\ [][NextLife]_vars

\* secrets created by the endpoints, then viewed, swept and left to expire
NextUse ==
    \/ \E t \in Instants : Tick(t)
    \/ \E h \in Handlers : \E req \in SeedRequests(h) : CreateSecret(h, req)
    \/ \E id \in Ids : StatisticUpsert(id)
    \/ Viewing
    \/ Sweeping

SpecUse == Init /\ [][NextUse]_vars

\* Every process serves requests, A and then B having booted.  The store holds
\* one secret, of those the endpoints persist, with or without a password and
\* an allowed address, some of its views used; the other id is unknown.
InitGate ==
    /\ Quiet /\ nextId = 2
    /\ \E row \in SeedRows(0, enableBurnAfterTime) :
       \E pw \in {None, Some("guess"), Some("pw")} :
       \E ip \in {None, Some("198.51.100.7"), Some("203.0.113.9")} :
          secrets = [id \in Ids |->
                        IF id = 1
                        THEN [row EXCEPT !.password = pw, !.allowed_ip = ip]
                        ELSE NoRow]
    /\ created = secrets
    /\ remainingViews \in [Ids -> 0..2]
    /\ remainingViews[1] \in SeedBudgets(secrets[1], enableBurnAfterTime)
    /\ \A id \in Ids \ {1} : remainingViews[id] = 0
    /\ boot = [p \in Procs |-> "running"]
    /\ timer = [p \in Procs |-> TRUE]
    /\ alive = [p \in Procs |-> TRUE]
    /\ adminSettings = upsertData
    /\ settings = upsertData["B"]
    /\ rootUser = 1
    /\ pending = [p \in Procs |-> None]

SpecGate == InitGate /\ [][(\E t \in Instants : Tick(t)) \/ Viewing]_vars

\* A and B have both booted and fire their sweeps on an empty store
InitOverlap ==
    /\ Quiet /\ EmptyStore
    /\ boot = [p \in Procs |-> "running"]
    /\ timer = [p \in Procs |-> TRUE]
    /\ alive = [p \in Procs |-> TRUE]
    /\ adminSettings = upsertData
    /\ settings = upsertData["B"]
    /\ rootUser = 1
    /\ pending = [p \in Procs |-> None]

SpecOverlap == InitOverlap /\ [][NextLife]_vars

NextSweep == Environment \/ Sweeping

SpecSweep == InitSweep /\ [][NextSweep]_vars

NextService == Environment \/ Booting \/ Sweeping

SpecService == InitService /\ [][NextService]_vars

\* The clock advances, every await of main() settles, the interval timer keeps
\* firing, every deleteMany settles, and the store is eventually available.
LiveService ==
    /\ SpecService
    /\ WF_vars(\E t \in Instants : Tick(t))
    /\ WF_vars(Booting)
    /\ \A p \in Procs : WF_vars(SweepTick(p))
    /\ WF_vars(\E s \in sweeps : dbCleaner(s))
    /\ <>[]storeUp

\* ------------------------------------------------------------- properties
CallIds == 1..MaxCalls
Min(a, b) == IF a < b THEN a ELSE b
WasCreated(id) == created[id] # NoRow
Answered(c) == calls[c].pc \in {"eager", "done"}
\* the calls on id that were answered, and those answered with the payload
CallsOn(id) == {c \in CallIds : calls[c].id = id /\ Answered(c)}
Payloads(id) == Cardinality({c \in CallsOn(id) : calls[c].result = "Payload"})
\* no call is between its gate and its consume, and the store answered them all
Settled(id) ==
    /\ \A c \in CallIds : calls[c].pc # "admitted"
    /\ \A c \in CallsOn(id) : calls[c].result # "StoreUnavailable"

\* C1: of k concurrent views of an unexpired secret with maxViews = n, exactly
\* min(n, k) receive the payload, and never more than n do.
C1_ViewBudget ==
    \A id \in Ids : WasCreated(id) =>
        /\ Payloads(id) <= created[id].maxViews
        /\ (Settled(id) /\ now < created[id].expiresAt) =>
               Payloads(id) = Min(created[id].maxViews, Cardinality(CallsOn(id)))

\* two views passed the gate on the last remaining view; one of them lost
C1_Witness ==
    \E id \in Ids : \E c \in CallsOn(id) :
        /\ WasCreated(id) /\ Settled(id) /\ now < created[id].expiresAt
        /\ Cardinality(CallsOn(id)) > created[id].maxViews
        /\ Payloads(id) = created[id].maxViews
        /\ calls[c].result \in {"Exhausted", "NotFound"}
        /\ calls[c].gate.present /\ ~calls[c].gate.exhausted

\* C2 as stated: a view whose gate runs at now >= expiresAt is answered
\* Deny(Expired), whether or not the row is still in the store.
C2_AlwaysExpired ==
    \A c \in CallIds :
        (Answered(c) /\ calls[c].gate.expired
            /\ calls[c].result # "StoreUnavailable")
        => calls[c].result = "Expired"

\* C2 as amended: a view whose gate runs at now >= expiresAt never receives the
\* payload; it is answered Deny(Expired) while the row is in the store, whatever
\* its remaining views, and Deny(NotFound) once the row has been removed.
C2_ExpiredOrGone ==
    \A c \in CallIds :
        (Answered(c) /\ calls[c].gate.expired
            /\ calls[c].result # "StoreUnavailable")
        => calls[c].result =
               IF calls[c].gate.present THEN "Expired" ELSE "NotFound"

\* one late view found the row with views left, a second found it removed
C2_Witness ==
    \E c, d \in CallIds :
        /\ Answered(c) /\ calls[c].gate.expired /\ calls[c].gate.present
        /\ ~calls[c].gate.exhausted /\ calls[c].result = "Expired"
        /\ Answered(d) /\ calls[d].gate.expired /\ ~calls[d].gate.present
        /\ calls[d].result = "NotFound"

\* C3: with burn-after-time enabled and preventBurn = false, once the n-th view
\* has been served the row is gone, and no further view is ever served.
C3_BurntAfterLastView ==
    \A id \in Ids :
        (WasCreated(id) /\ enableBurnAfterTime /\ ~created[id].preventBurn) =>
            /\ Payloads(id) <= created[id].maxViews
            /\ Payloads(id) = created[id].maxViews => ~HasRow(id)

\* a view arrived after the last one was served, before expiry, and found nothing
C3_Witness ==
    \E id \in Ids : \E c \in CallsOn(id) :
        /\ WasCreated(id) /\ enableBurnAfterTime /\ ~created[id].preventBurn
        /\ Payloads(id) = created[id].maxViews
        /\ ~calls[c].gate.present /\ ~calls[c].gate.expired
        /\ calls[c].result = "NotFound"

\* C4 as stated: a view of an exhausted preventBurn secret whose row is still in
\* the store is answered Deny(Exhausted).
C4_AlwaysExhausted ==
    \A c \in CallIds :
        (/\ Answered(c) /\ WasCreated(calls[c].id)
         /\ created[calls[c].id].preventBurn
         /\ calls[c].gate.exhausted /\ calls[c].result # "StoreUnavailable")
        => calls[c].result = "Exhausted"

\* C4 as amended: a preventBurn secret is never deleted before its expiry; once
\* exhausted, a view made before expiresAt is answered Deny(Exhausted), never
\* NotFound, and a view made from expiresAt on, while the row is still there, is
\* answered Deny(Expired).
C4_RetainedUntilExpiry ==
    /\ \A id \in Ids :
          (WasCreated(id) /\ created[id].preventBurn
              /\ now < created[id].expiresAt) => HasRow(id)
    /\ \A c \in CallIds :
          (/\ Answered(c) /\ WasCreated(calls[c].id)
           /\ created[calls[c].id].preventBurn
           /\ calls[c].gate.exhausted /\ calls[c].result # "StoreUnavailable")
          => calls[c].result =
                 IF calls[c].gate.expired THEN "Expired" ELSE "Exhausted"

\* an exhausted preventBurn secret, still stored, refused a view before expiry
C4_Witness ==
    \E id \in Ids : \E c \in CallsOn(id) :
        /\ WasCreated(id) /\ created[id].preventBurn /\ HasRow(id)
        /\ Payloads(id) = created[id].maxViews
        /\ now < created[id].expiresAt
        /\ calls[c].gate.exhausted /\ calls[c].result = "Exhausted"

\* the rows a sweep issued at instant t is to delete
Due(t) == {id \in Ids : HasRow(id) /\ secrets[id].expiresAt <= t}

\* C5: one sweep run at instant t deletes every secret with expiresAt <= t,
\* whatever its remaining views and its preventBurn flag, deletes no secret
\* with expiresAt > t, and changes no field of a secret it leaves.
C5_SweepDeletesExactlyExpired ==
    [][\A s \in sweeps : (dbCleaner(s) /\ storeUp) =>
          \A id \in Ids : HasRow(id) =>
              IF secrets[id].expiresAt <= s.at
              THEN secrets'[id] = NoRow
              ELSE /\ secrets'[id] = secrets[id]
                   /\ remainingViews'[id] = remainingViews[id]]_vars

\* a sweep removed a secret that expired at the very instant of the sweep, its
\* views used up and preventBurn set, and left a later one as it was created
C5_Witness ==
    \E id, j \in Ids :
        /\ sweepLog.outcome = "swept" /\ sweepLog.count = 1
        /\ created[id].expiresAt = sweepLog.at /\ created[id].preventBurn
        /\ ~HasRow(id)
        /\ created[j].expiresAt > sweepLog.at
        /\ HasRow(j) /\ secrets[j] = created[j] /\ remainingViews[j] > 0

\* C6: the sweep is idempotent: a run that follows a run, with no secret
\* expiring between the two, deletes nothing, leaves the store as the first run
\* left it, and raises no error.
C6_SweepIdempotent ==
    [][\A s \in sweeps :
          (/\ dbCleaner(s) /\ storeUp /\ sweepLog.outcome = "swept"
           /\ Due(s.at) \subseteq Due(sweepLog.at))
          => /\ secrets' = secrets /\ remainingViews' = remainingViews
             /\ sweepLog'.outcome = "swept" /\ sweepLog'.count = 0
             /\ alive' = alive /\ timer' = timer]_vars

\* a run deleted nothing, after an earlier run had deleted a secret, and while
\* a secret that has not expired is still stored
C6_Witness ==
    /\ sweepLog.outcome = "swept" /\ sweepLog.count = 0
    /\ \E id \in Ids : WasCreated(id) /\ ~HasRow(id)
                        /\ created[id].expiresAt <= sweepLog.at
    /\ \E j \in Ids : HasRow(j) /\ secrets[j].expiresAt > sweepLog.at

\* C7: a sweep whose store call fails changes no secret, ends no process and
\* stops no timer; the sweep runs again, and once the store is available the
\* expired secrets are deleted.
C7_FailedSweepContained ==
    /\ [][\A s \in sweeps : (dbCleaner(s) /\ ~storeUp) =>
              /\ secrets' = secrets /\ remainingViews' = remainingViews
              /\ alive' = alive /\ timer' = timer]_vars
    /\ \A id \in Ids :
          (sweepLog.outcome = "caught" /\ id \in Due(now)) ~> ~HasRow(id)

\* a sweep has failed while an expired secret is stored; the process and its
\* timer are still there
C7_Witness ==
    \E p \in Procs :
        /\ sweepLog.outcome = "caught" /\ Due(sweepLog.at) # {}
        /\ alive[p] /\ timer[p]

\* C8 as stated: every secret that stops being readable, expired or its views
\* used up, is eventually removed from the store, in every run in which a
\* process keeps running and the store is eventually available.
C8_EventuallyRemoved ==
    \A id \in Ids :
        (/\ HasRow(id) /\ \E p \in Procs : alive[p]
         /\ (now >= secrets[id].expiresAt \/ remainingViews[id] = 0))
        ~> ~HasRow(id)

\* C9 as stated: every stored secret has 1 <= maxViews <= secret.maxViewsLimit,
\* whichever creation endpoint persisted it.
C9_MaxViewsWithinLimit ==
    \A id \in Ids :
        HasRow(id) => (secrets[id].maxViews >= 1
                       /\ secrets[id].maxViews <= maxViewsLimit)

\* the lifetime a GET request asks for: parseInt of the ttl query parameter
QueryTtlNum(req) == ParseInt(OrDefault(req.ttl, <<"8", "6", "4", "0", "0">>))
TtlNotValid(req) == IsNaN(QueryTtlNum(req)) \/ QueryTtlNum(req)[1] \notin VALID_TTL
\* the GET requests, each with its endpoint, whose ttl is not in VALID_TTL
InvalidTtlGets ==
    {hr \in UNION {{<<h, req>> : req \in TtlRequests(h)} : h \in GetHandlers} :
        TtlNotValid(hr[2])}

\* C10: every stored secret has expiresAt = its creation instant + ttl seconds
\* for a ttl of VALID_TTL; no step changes the expiresAt of a stored secret; a
\* GET request whose ttl is not in VALID_TTL is answered 400 and stores nothing.
C10_ExpiresAtFromValidTtl ==
    /\ [](\A id \in Ids : HasRow(id) =>
              /\ (secrets[id].expiresAt - secrets[id].createdAt) % 1000 = 0
              /\ (secrets[id].expiresAt - secrets[id].createdAt) \div 1000
                     \in VALID_TTL)
    /\ [][/\ \A id \in Ids : (HasRow(id) /\ secrets'[id] # NoRow) =>
                  secrets'[id].expiresAt = secrets[id].expiresAt
          /\ \A hr \in InvalidTtlGets :
                 CreateSecret(hr[1], hr[2]) =>
                     (reply'.code = 400 /\ secrets' = secrets
                      /\ nextId' = nextId)]_vars

\* a request was answered 400 for its ttl; a five-minute secret was stored, time
\* passed, and a sweep ran and left it
C10_Witness ==
    \E id \in Ids :
        /\ enableBurnAfterTime /\ reply.code = 400
        /\ HasRow(id) /\ secrets[id].expiresAt = secrets[id].createdAt + 300 * 1000
        /\ now > secrets[id].createdAt
        /\ sweepLog.outcome = "swept" /\ sweepLog.at > secrets[id].createdAt

\* C11 as stated: while enableBurnAfterTime is off, every stored secret has
\* preventBurn = TRUE, whichever creation endpoint persisted it and whatever the
\* request said about preventBurn.
C11_PreventBurnCoerced ==
    ~enableBurnAfterTime =>
        \A id \in Ids : HasRow(id) => secrets[id].preventBurn = TRUE

\* C12: while enableBurnAfterTime is off, a secret whose expiresAt is still
\* ahead is in the store, whatever number of its views has been served, and no
\* step taken at an instant before the expiresAt of a secret removes its row.
C12_RetainedUntilTtl ==
    /\ [](~enableBurnAfterTime =>
             \A id \in Ids :
                 (WasCreated(id) /\ now < created[id].expiresAt) => HasRow(id))
    /\ [][~enableBurnAfterTime =>
             \A id \in Ids :
                 (HasRow(id) /\ secrets'[id] = NoRow) =>
                     now >= secrets[id].expiresAt]_vars

\* with the policy off, a secret stored with preventBurn = FALSE had all its
\* views served and is still stored, before its expiry
C12_Witness ==
    \E id \in Ids :
        /\ ~enableBurnAfterTime /\ WasCreated(id) /\ ~created[id].preventBurn
        /\ Payloads(id) = created[id].maxViews /\ remainingViews[id] = 0
        /\ HasRow(id) /\ now > 0 /\ now < created[id].expiresAt

\* the creation requests the callers of SpecPolicy send, each with its endpoint
GatedRequests == UNION {{<<h, req>> : req \in TtlRequests(h)} : h \in Handlers}

ListEntries(list) ==
    {e \in {Trim(SubSeq(list, i, j)) :
               <<i, j>> \in {ij \in (1..Len(list) + 1) \X (0..Len(list)) :
                   /\ ij[1] <= ij[2] + 1
                   /\ \A k \in ij[1]..ij[2] : list[k] # ","
                   /\ (ij[1] = 1 \/ list[ij[1] - 1] = ",")
                   /\ (ij[2] = Len(list) \/ list[ij[2] + 1] = ",")}} :
        e # <<>>}

\* C14: the hook answers 403 exactly when the cached restrict_organization_email
\* list is non-empty, the URL is a signup URL and the domain of the request's
\* email is the domain of no entry of the list; otherwise it sends no reply.
C14_DeniesIffForeignDomain ==
    [][\A p \in Procs, req \in SignupRequests :
          signupRequest(p, req[1], req[2]) =>
              /\ reply'.code \in {0, 403}
              /\ reply'.code = 403 <=>
                     /\ Restrict(p) # None /\ Restrict(p)[1] # <<>>
                     /\ authenticationRegex(req[1])
                     /\ \A e \in ListEntries(Restrict(p)[1]) :
                            getEmailDomain(e) # getEmailDomain(req[2])]_vars

\* a process whose cached list has blanks around its entries denied a request,
\* and another process, its list empty or never loaded, let one pass
C14_Witness ==
    /\ reply.code = 403
    /\ \E p \in Procs :
          /\ Restrict(p) # None
          /\ Cardinality(ListEntries(Restrict(p)[1])) = 2
          /\ Head(Restrict(p)[1]) = " "
    /\ \E p \in Procs : Restrict(p) = None \/ Restrict(p) = Some(<<>>)

\* C15 as stated: a 200 response of a password-generation request has the
\* generated password in it only if the request set showPassword to true.
C15_PasswordOnlyWhenAsked ==
    reply.code = 200 => (reply.password => reply.showPassword)

\* the rows a writer of the settings record writes: a bootstrap its
\* environment's, an update the one it was sent
Written == {upsertData[p] : p \in Procs} \cup SettingsRows

\* C16: an update writes the store before the cache: the cache of a process
\* changes only when one of its own updates completes, to the row that update
\* wrote to the store, and keeps it until the next one completes; an update
\* whose store write throws leaves the cache as it was and never gets to
\* changing it.
C16_WriteThrough ==
    /\ [](\A p \in Procs :
             /\ boot[p] = "updateAdminSettings" => settings \in Written
             /\ pending[p] # None => settings \in Written)
    /\ [][\A p \in Procs :
             /\ adminSettings'[p] # adminSettings[p] =>
                    \/ /\ boot[p] = "updateAdminSettings"
                       /\ boot'[p] = "createRootUser"
                       /\ adminSettings'[p] = EnvSettings(p)
                    \/ /\ pending[p] # None /\ pending'[p] = None
                       /\ adminSettings'[p] = pending[p][1]
             /\ (~storeUp /\ (createAdminSettings(p)
                                 \/ \E row \in SettingsRows : putSettings(p, row))) =>
                    /\ adminSettings' = adminSettings
                    /\ pending' = pending
                    /\ boot'[p] # "updateAdminSettings"]_vars

\* a bootstrap whose store write threw left its cache empty, and an update of
\* another process completed: its cache holds the row the store holds
C16_Witness ==
    \E p, q \in Procs :
        /\ boot[p] = "failed" /\ adminSettings[p] = NoRow
        /\ boot[q] = "running" /\ pending[q] = None
        /\ adminSettings[q] = settings /\ settings # EnvSettings(q)

\* C17 as stated, for an update that sets read_only: once the update has
\* completed in a process and the store holds its row, every other running
\* process comes to return that row from its cache (unless the store is written
\* again first).
C17_ReachesOtherProcesses ==
    LET row == [read_only |-> TRUE, hide_allowed_ip_input |-> FALSE,
                restrict_organization_email |-> <<>>]
    IN  (/\ boot["A"] = "running" /\ boot["B"] = "running"
         /\ pending["A"] = None /\ adminSettings["A"] = row /\ settings = row)
        ~> (adminSettings["B"] = row \/ settings # row)

C19_PersistedOverridesKept ==
    [][\A p \in Procs :
          \A f \in {"read_only", "hide_allowed_ip_input",
                     "restrict_organization_email"} :
              (/\ settings # NoRow
               /\ \A q \in Procs : settings[f] # EnvSettings(q)[f]) =>
                  /\ (storeUp /\ createAdminSettings(p)) =>
                         settings'[f] = settings[f]
                  /\ updateAdminSettings(p) =>
                         adminSettings'[p][f] = settings[f]]_vars

\* C20: once a bootstrap or an update has written the store, the store holds
\* the settings record, and the record is, field for field, the row one writer
\* wrote: every write replaces the whole record by the writer's row, and no
\* step removes it.
C20_OneRecordOneWriter ==
    /\ [](/\ settings = NoRow \/ settings \in Written
          /\ \A p \in Procs :
                (boot[p] \in {"updateAdminSettings", "createRootUser", "createUser",
                              "running"} \/ pending[p] # None) =>
                    settings # NoRow)
    /\ [][/\ settings # NoRow => settings' # NoRow
          /\ settings' # settings =>
                 \/ \E p \in Procs :
                       createAdminSettings(p) /\ settings' = upsertData[p]
                 \/ \E p \in Procs :
                       pending[p] = None /\ pending'[p] = Some(settings')]_vars

\* both processes have booted and an update was made: the record is the row of
\* the writer that came last, which neither bootstrap wrote
C20_Witness ==
    /\ \A p \in Procs : boot[p] = "running"
    /\ \E p \in Procs : adminSettings[p] = settings
    /\ settings \in Written \ {upsertData[p] : p \in Procs}

C22_DeleteIfExists ==
    [][/\ \A id \in Ids :
              (WasCreated(id) /\ ~HasRow(id)) =>
                  secrets'[id] = NoRow /\ remainingViews'[id] = 0
       /\ \A c \in CallIds :
              LET id == calls[c].id
              IN  /\ (calls[c].pc = "admitted" /\ calls'[c].pc = "done"
                         /\ storeUp /\ ~HasRow(id)) =>
                         /\ calls'[c].result = "NotFound"
                         /\ secrets' = secrets /\ remainingViews' = remainingViews
                  /\ (calls[c].pc = "eager" /\ calls'[c].pc = "done") =>
                         /\ calls'[c].result = "Expired"
                         /\ storeUp => secrets'[id] = NoRow
                         /\ ~HasRow(id) =>
                                secrets' = secrets /\ remainingViews' = remainingViews
       /\ \A s \in sweeps :
              (s \notin sweeps' /\ storeUp) =>
                  /\ sweepLog'.outcome = "swept"
                  /\ sweepLog'.count = Cardinality(Due(s.at))
                  /\ \A id \in Ids : ~HasRow(id) => secrets'[id] = NoRow
       /\ alive' = alive /\ timer' = timer]_vars

\* two consumers, an eager deletion and a sweep all saw the row of one secret;
\* the first consumer served its last view and removed it, the second was
\* answered NotFound, the eager deletion finished and the sweep counted nothing
C22_Witness ==
    \E id \in Ids : \E c, d, e \in CallsOn(id) :
        /\ WasCreated(id) /\ ~HasRow(id)
        /\ calls[c].pc = "done" /\ calls[c].result = "Payload"
        /\ Payloads(id) = created[id].maxViews
        /\ calls[d].pc = "done" /\ calls[d].result = "NotFound"
        /\ calls[d].gate.present
        /\ calls[e].pc = "done" /\ calls[e].result = "Expired"
        /\ calls[e].gate.present
        /\ sweepLog.outcome = "swept" /\ sweepLog.count = 0
        /\ sweepLog.at >= created[id].expiresAt

\* C23: AccessGate.evaluate checks existence, expiry, exhaustion, password and
\* IP allowlist in this order, and the denial is that of the first check that
\* fails: an expired or an exhausted secret asked for with a wrong password is
\* denied as Expired or Exhausted, never as Unauthorized.
C23_FirstFailingCheck ==
    [][\A c \in CallIds, id \in Ids, a \in Attempts, p \in Procs :
          (viewSecret(c, id, a, p) /\ storeUp) =>
              LET checks ==
                      << <<~HasRow(id), "NotFound">>,
                         <<HasRow(id) /\ now >= secrets[id].expiresAt, "Expired">>,
                         <<HasRow(id) /\ remainingViews[id] <= 0, "Exhausted">>,
                         <<HasRow(id) /\ secrets[id].password # None
                               /\ a.password # secrets[id].password,
                           "Unauthorized">>,
                         <<HasRow(id) /\ secrets[id].allowed_ip # None
                               /\ ~adminSettings[p].hide_allowed_ip_input
                               /\ secrets[id].allowed_ip # Some(a.ip),
                           "Forbidden">> >>
                  failing == {i \in 1..5 : checks[i][1]}
                  first == CHOOSE i \in failing : \A j \in failing : i <= j
              IN  IF failing = {}
                  THEN calls'[c].pc = "admitted"
                  ELSE /\ calls'[c].pc # "admitted"
                       /\ calls'[c].result = checks[first][2]]_vars

\* a secret whose password no caller has was asked for when its views were used
\* up, and again once it had expired: Exhausted the first time, Expired the
\* second
C23_Witness ==
    \E c, d \in CallIds :
        /\ calls[c].id = 1 /\ calls[d].id = 1
        /\ created[1].password = Some("pw")
        /\ calls[c].result = "Exhausted" /\ ~calls[c].gate.expired
        /\ calls[d].result = "Expired" /\ calls[d].gate.exhausted

\* C24: a process registers its sweep timer only when createAdminSettings and
\* createRootUser have both returned; when either throws, the process runs on
\* without ever firing a sweep, and its cache is loaded exactly when
\* createAdminSettings had returned before the throw.
C24_SweeperAfterBootstrap ==
    /\ [](\A p \in Procs :
              /\ timer[p] <=> boot[p] = "running"
              /\ boot[p] \in {"createAdminSettings", "updateAdminSettings"} =>
                     adminSettings[p] = NoRow
              /\ boot[p] \in {"createRootUser", "createUser", "running"} =>
                     adminSettings[p] # NoRow
              /\ \A s \in sweeps : boot[s.proc] = "running")
    /\ [][\A p \in Procs :
              /\ alive'[p] = alive[p]
              /\ (boot[p] # "failed" /\ boot'[p] = "failed") =>
                     /\ adminSettings'[p] = adminSettings[p]
                     /\ adminSettings[p] # NoRow <=>
                            boot[p] \in {"createRootUser", "createUser"}
              /\ boot[p] = "failed" =>
                     /\ boot'[p] = "failed" /\ ~timer'[p]
                     /\ adminSettings'[p] = adminSettings[p]
                     /\ sweepLog' = sweepLog]_vars

\* process A's createRootUser has thrown: its cache is loaded, it has no timer,
\* and an expired secret is still stored a sweep interval later, never swept
C24_Witness ==
    /\ boot["A"] = "failed" /\ alive["A"] /\ ~timer["A"]
    /\ adminSettings["A"] # NoRow
    /\ storeUp /\ now >= 300000 + SweepInterval
    /\ Due(now) # {} /\ sweepLog.outcome = "none"

\* C25 as stated: when processes bootstrap side by side on a store without a
\* root user, no step of a bootstrap taken while the store answers fails, and
\* a process that is through has its cache loaded and its sweep timer.
C25_AllFinishBootstrap ==
    /\ [](\A p \in Procs :
              boot[p] = "running" => (adminSettings[p] # NoRow /\ timer[p]))
    /\ [][\A p \in Procs :
              (storeUp /\ boot[p] # "failed") => boot'[p] # "failed"]_vars

\* C26: whatever the bootstraps, one after the other or side by side, the store
\* never holds more than one root user; a bootstrap that finds the root user
\* goes on without creating or changing a user, and a user is created only
\* when there is none.
C26_OneRootUser ==
    /\ [](rootUser <= 1)
    /\ [][/\ rootUser' # rootUser => (rootUser = 0 /\ rootUser' = 1)
          /\ \A p \in Procs :
                 (boot[p] = "createRootUser" /\ boot'[p] # boot[p]
                     /\ storeUp /\ rootUser > 0) =>
                     (boot'[p] = "running" /\ rootUser' = rootUser)]_vars

\* both processes are through: one created the root user, the other found it
C26_Witness ==
    /\ \A p \in Procs : boot[p] = "running" /\ timer[p]
    /\ rootUser = 1

\* C27 as stated: a creation request that is answered 500 has left no secret
\* in the store, wherever in the request the store failed.
C27_NothingPersistedOn500 ==
    [][\A r \in inflight :
          (r \notin inflight' /\ reply'.code = 500) => secrets'[r.id] = NoRow]_vars

\* the requests, each with its endpoint, that the endpoint's validation rejects,
\* with the policy on and off
Rejected ==
    [burn \in BOOLEAN |->
        UNION {{<<h, req>> : req \in {q \in Requests(h) :
                                         Handle(h, q, 0, burn).code = 400}} :
               h \in Handlers}]

\* C28: a creation request that validation rejects is answered 400 and leaves
\* the store as it was: no secret inserted, no request left in progress, the
\* secrets_created statistic not touched.  The endpoints of the encrypt
\* controller and of the second definition of the password controller reject
\* every request with an empty password, a maxViews outside 1..maxViewsLimit,
\* a ttl outside VALID_TTL, no character set, a length outside 4..128, or
\* preventBurn false while enableBurnAfterTime is off.
C28_RejectedLeavesNoTrace ==
    /\ [](\A h \in Handlers \ {"passwordPost1", "passwordGet1"} :
          \A req \in Requests(h) :
              LET post == h \in PostHandlers
                  encrypt == h \in {"encryptSecretPost", "encryptSecretGet"}
                  num(o, d) == IF o = None THEN Some(d)
                               ELSE IF post THEN Some(o[1]) ELSE ParseInt(o[1])
                  ttl == num(req.ttl, 86400)
                  maxViews == num(req.maxViews, 1)
                  off(o) == IF post THEN o = Some(FALSE) ELSE o = Some("false")
                  defect ==
                      \/ encrypt /\ (req.password = None
                                        \/ Len(Trim(req.password[1])) = 0)
                      \/ ttl = None \/ ttl[1] \notin VALID_TTL
                      \/ maxViews = None \/ maxViews[1] < 1
                      \/ maxViews[1] > maxViewsLimit
                      \/ ~encrypt /\ (LET length == num(req.length, 16)
                                       IN  \/ length = None \/ length[1] < 4
                                           \/ length[1] > 128)
                      \/ ~encrypt /\ off(req.numbers) /\ off(req.symbols)
                            /\ off(req.uppercase) /\ off(req.lowercase)
                      \/ ~enableBurnAfterTime
                            /\ (req.preventBurn = None \/ off(req.preventBurn))
              IN  defect => <<h, req>> \in Rejected[enableBurnAfterTime])
    /\ [][\/ /\ reply'.code = 400 /\ reply'.secretId = None
              /\ secrets' = secrets /\ remainingViews' = remainingViews
              /\ nextId' = nextId /\ created' = created
              /\ statistic' = statistic /\ inflight' = inflight
          \/ \A hr \in Rejected[enableBurnAfterTime] :
                 ~CreateSecret(hr[1], hr[2])]_vars

\* a request was rejected while the policy was off; the store holds no secret
\* and the statistic has not been created
C28_Witness ==
    /\ reply.code = 400 /\ ~enableBurnAfterTime
    /\ \A id \in Ids : ~HasRow(id)
    /\ nextId = 1 /\ statistic = None /\ inflight = {}

\* C29: every secret a creation endpoint persists expires strictly after the
\* instant it was created at, so none is created already expired; the expiry
\* the POST handlers compute for a ttl that parses to 0 is the instant plus the
\* one-day default, not the instant itself.
C29_ExpiresAfterCreation ==
    /\ \A id \in Ids : HasRow(id) =>
           /\ secrets[id].expiresAt > secrets[id].createdAt
           /\ secrets[id].createdAt <= now
    /\ ExpiresAtPost(now, 0) = now + DEFAULT_EXPIRATION
    /\ ExpiresAtPost(now, 0) > now

\* a secret created after time had passed, its request naming no ttl, expires
\* one day after its creation
C29_Witness ==
    \E id \in Ids :
        /\ HasRow(id) /\ secrets[id].createdAt > 0
        /\ secrets[id].expiresAt = secrets[id].createdAt + DEFAULT_EXPIRATION

\* C30: sweeps are fired without waiting for one another and overlap, within
\* a process and across processes.  Whatever the order in which they and the
\* creations reach the store: a row is deleted only by a sweep fired at or
\* after its expiresAt; a sweep the store serves deletes every row that had
\* expired when it was fired, so once no sweep is in flight none of those is
\* left; and a sweep ends no process and stops no timer, served or not.
C30_OverlappingSweeps ==
    /\ [](sweeps = {} /\ sweepLog.outcome = "swept" =>
              \A id \in Ids : HasRow(id) => secrets[id].expiresAt > sweepLog.at)
    /\ [][/\ \A id \in Ids :
                  (HasRow(id) /\ secrets'[id] = NoRow) =>
                      \E s \in sweeps \ sweeps' : secrets[id].expiresAt <= s.at
          /\ \A s \in sweeps \ sweeps' :
                 /\ alive' = alive /\ timer' = timer
                 /\ storeUp =>
                       \A id \in Ids :
                           (HasRow(id) /\ secrets[id].expiresAt <= s.at) =>
                               secrets'[id] = NoRow]_vars

\* of two sweeps in flight the older was served last: it ran when the secret
\* had expired, left it, as the secret had not expired when the sweep was
\* fired, and the sweep fired at the expiry is still to come
C30_Witness ==
    \E id \in Ids : \E s \in sweeps :
        /\ HasRow(id) /\ secrets[id].expiresAt <= now
        /\ sweepLog.outcome = "swept" /\ sweepLog.count = 0
        /\ sweepLog.at < secrets[id].expiresAt
        /\ sweepLog.at > secrets[id].createdAt
        /\ s.at >= secrets[id].expiresAt /\ s.proc = "B"

====
